---- MODULE Spec2Model ----
(***************************************************************************)
(* Booking lifecycle of the rental application (src/app.py): the Flask     *)
(* handlers book_property, owner_approve_request, owner_reject_request,    *)
(* owner_delete and mark_notification_read, run by concurrent request      *)
(* workers against the shared MongoDB collections props_col, bookings_col  *)
(* and notifications_col.  Every pymongo call is one atomic step; a        *)
(* handler is the sequence of its calls, so the steps of two requests      *)
(* interleave exactly where the code has separate store calls.             *)
(***************************************************************************)
EXTENDS Integers, Sequences, FiniteSets, TLC

None == "none"

\* registered users (users_col is only read by the handlers)
Owners == {"o1", "o2"}
Tenants == {"t1", "t2"}
Users == Owners \cup Tenants

\* the listings present at start: p1 of owner o1, p2 of owner o2
PropIds == {"p1", "p2"}
\* the ids a request can name: the listings, and an id that was never inserted
AllPropIds == PropIds \cup {"px"}

\* request workers of the WSGI server
Workers == {"w1", "w2"}

\* bounds of the exploration
MaxBookings == 3
MaxCalls == 2

\* what happened on p1 before the exploration starts:
\*   "empty"   nothing
\*   "pending" t1 requested, then t2 requested
\*   "booked"  t1 requested, o1 approved it, then t2 requested
Seeds == {"empty", "pending", "booked"}

BookingIds == 1..MaxBookings
NotifIds == 1..(3 + MaxCalls)

\* send_email returned after delivering (SMTP, or the console fallback), or
\* after catching the transport's exception
MailOutcomes == {"delivered", "failed"}

VARIABLES
  props,          \* props_col: property id -> document
  bookings,       \* bookings_col: booking id -> document
  notifications,  \* notifications_col: notification id -> document
  nextBid,        \* next _id handed out by bookings_col.insert_one
  nextNid,        \* next _id handed out by notifications_col.insert_one
  w,              \* per worker: position in the handler, request, locals, flash
  obs,            \* per worker: what the current request did so far (observer)
  ncalls          \* requests started

vars == <<props, bookings, notifications, nextBid, nextNid, w, obs, ncalls>>
store == <<props, bookings, notifications>>

----------------------------------------------------------------------------
\* Pure helpers, one per query / document of the source

\* props_col.find_one({"_id": pid}) is not None
PropExists(pr, pid) ==
  pid \in DOMAIN pr

\* (variant: the query leaves out the owner_email filter)
OwnsPropertyAnyOwner(pr, pid, user) ==
  pid \in DOMAIN pr

\* props_col.find_one({"_id": pid, "owner_email": user}) is not None
OwnsProperty(pr, pid, user) ==
  pid \in DOMAIN pr /\ pr[pid].owner_email = user

\* bookings_col.find_one({"_id": bid}) is not None
BookingExists(bk, bid) ==
  bid \in DOMAIN bk

\* (variant: the query looks for the status in another spelling and finds none)
ExistingApprovedNever(bk, pid) ==
  \E b \in DOMAIN bk : bk[b].property_id = pid /\ bk[b].status = "approved"

\* bookings_col.find_one({"property_id": pid, "status": "APPROVED"}) is not None
ExistingApproved(bk, pid) ==
  \E b \in DOMAIN bk : bk[b].property_id = pid /\ bk[b].status = "APPROVED"

\* bookings_col.update_one({"_id": bid}, {"$set": {"status": s}})
SetStatus(bk, bid, s) ==
  [b \in DOMAIN bk |-> IF b = bid THEN [bk[b] EXCEPT !.status = s] ELSE bk[b]]

\* (variant: the filter leaves out property_id)
RejectAllPendingAnyProperty(bk, pid, keep) ==
  [b \in DOMAIN bk |->
     IF bk[b].status = "PENDING" /\ b # keep
     THEN [bk[b] EXCEPT !.status = "REJECTED"]
     ELSE bk[b]]

\* bookings_col.update_many({property_id: pid, status: PENDING, _id: {$ne: keep}},
\*                          {$set: {status: REJECTED}})
RejectAllPendingExcept(bk, pid, keep) ==
  [b \in DOMAIN bk |->
     IF bk[b].property_id = pid /\ bk[b].status = "PENDING" /\ b # keep
     THEN [bk[b] EXCEPT !.status = "REJECTED"]
     ELSE bk[b]]

\* props_col.update_one({"_id": pid}, {"$set": {"booked": True, "booked_by": t}})
SetBookedFlag(pr, pid, t) ==
  [q \in DOMAIN pr |->
     IF q = pid THEN [pr[q] EXCEPT !.booked = TRUE, !.booked_by = t] ELSE pr[q]]

\* collection.insert_one(doc) under a fresh _id
Insert(col, id, doc) ==
  [k \in DOMAIN col \cup {id} |-> IF k = id THEN doc ELSE col[k]]

\* collection.delete_many({"property_id": pid})
DeleteByProperty(col, pid) ==
  [k \in {j \in DOMAIN col : col[j].property_id # pid} |-> col[k]]

\* props_col.delete_one({"_id": pid, "owner_email": user})
DeleteOwnedProperty(pr, pid, user) ==
  [q \in {r \in DOMAIN pr : ~(r = pid /\ pr[r].owner_email = user)} |-> pr[q]]

\* the booking document of book_property
BookingDoc(pid, tenant) ==
  [property_id |-> pid, tenant_email |-> tenant, status |-> "PENDING"]

\* the notification of book_property: addressed to the owner only
RequestNotif(owner, pid) ==
  [owner_email |-> owner, tenant_email |-> None, property_id |-> pid,
   booking_id |-> 0, kind |-> "REQUEST", read |-> FALSE]

\* (variant: the document is built like the one of book_property, owner only)
DecisionNotifToOwner(user, b, kind) ==
  [owner_email |-> user, tenant_email |-> None,
   property_id |-> b.property_id, booking_id |-> b.id, kind |-> kind,
   read |-> FALSE]

\* the notification of owner_approve_request / owner_reject_request
DecisionNotif(user, b, kind) ==
  [owner_email |-> user, tenant_email |-> b.tenant_email,
   property_id |-> b.property_id, booking_id |-> b.id, kind |-> kind,
   read |-> FALSE]

\* notifications_col.update_one({"_id": nid}, {"$set": {"read": True}})
MarkRead(ns, nid) ==
  [n \in DOMAIN ns |-> IF n = nid THEN [ns[n] EXCEPT !.read = TRUE] ELSE ns[n]]

\* (variant: no try/except in send_email nor around the call, the transport's
\* exception ends the request)
EmailStepResultRaising(outcome) ==
  IF outcome = "failed" THEN "ServerError" ELSE "Success"

\* send_email never raises, and every call site wraps it in try/except:
\* whatever the transport did, the handler goes on to its success flash
EmailStepResult(outcome) ==
  "Success"

----------------------------------------------------------------------------
NoBooking == [id |-> 0, property_id |-> None, tenant_email |-> None]

IdleWorker ==
  [pc |-> "idle", op |-> None, user |-> None, pid |-> None, bid |-> 0,
   nid |-> 0, booking |-> NoBooking, owner |-> None, res |-> None]

NoObs ==
  [nNotif |-> 0, mails |-> <<>>, wrote |-> FALSE, pend0 |-> {}, commitDom |-> {},
   events |-> <<>>]

\* props_col after owner_add of p1 by o1 and of p2 by o2 (no booked field yet)
NewProps ==
  [p \in PropIds |->
     [owner_email |-> IF p = "p1" THEN "o1" ELSE "o2",
      booked |-> FALSE, booked_by |-> None]]

\* The store after the seed's requests have completed, each run on its own
\* through the handlers below; no request is in flight.
Init ==
  /\ \E seed \in Seeds :
       \/ /\ seed = "empty"
          /\ props = NewProps
          /\ bookings = <<>>
          /\ notifications = <<>>
       \/ /\ seed = "pending"
          /\ props = NewProps
          /\ bookings = <<BookingDoc("p1", "t1"), BookingDoc("p1", "t2")>>
          /\ notifications = <<RequestNotif("o1", "p1"), RequestNotif("o1", "p1")>>
       \/ /\ seed = "booked"
          /\ props = SetBookedFlag(NewProps, "p1", "t1")
          /\ bookings = <<[BookingDoc("p1", "t1") EXCEPT !.status = "APPROVED"],
                          BookingDoc("p1", "t2")>>
          /\ notifications =
               <<RequestNotif("o1", "p1"),
                 DecisionNotif("o1", [id |-> 1, property_id |-> "p1", tenant_email |-> "t1"],
                               "APPROVED"),
                 RequestNotif("o1", "p1")>>
  /\ nextBid = Len(bookings) + 1
  /\ nextNid = Len(notifications) + 1
  /\ w = [p \in Workers |-> IdleWorker]
  /\ obs = [p \in Workers |-> NoObs]
  /\ ncalls = 0

----------------------------------------------------------------------------
\* Bookkeeping shared by the steps

Goto(p, next) ==
  w' = [w EXCEPT ![p].pc = next]

\* the handler returns with flash category / outcome res
End(p, res) ==
  w' = [w EXCEPT ![p].pc = "done", ![p].res = res]

PendingOf(bk, pid) ==
  {b \in DOMAIN bk : bk[b].property_id = pid /\ bk[b].status = "PENDING"}

\* bookings a request in flight is still going to insert
InFlightBooks ==
  Cardinality({q \in Workers : w[q].pc = "b_insert"})

\* A request is handed to an idle worker (the workers are interchangeable, so
\* one fixed idle worker takes it).  The first lines of every handler send a
\* session of the wrong role to the login page before any store call, so the
\* requests that run a handler come from a session of the handler's role.
\* A handler's first step is its first store call.
Accepts(p) ==
  /\ w[p].pc = "idle"
  /\ p = CHOOSE q \in Workers : w[q].pc = "idle"
  /\ ncalls < MaxCalls

\* the ids a request can name: every _id handed out so far, and one that
\* was never handed out (it finds no document)
KnownIds(nextId, ids) ==
  {i \in ids : i <= nextId}

Request(op, user, pid, bid, nid) ==
  [IdleWorker EXCEPT !.op = op, !.user = user, !.pid = pid, !.bid = bid, !.nid = nid]

----------------------------------------------------------------------------
\* book_property

\* (variant: no "if not prop" return; the insert runs for a missing property)
BookFindUnchecked(p) ==
  /\ Accepts(p)
  /\ nextBid + InFlightBooks <= MaxBookings
  /\ \E user \in Tenants, pid \in AllPropIds :
       w' = [w EXCEPT ![p] =
               [Request("book", user, pid, 0, 0) EXCEPT
                  !.pc = "b_insert",
                  !.owner = IF PropExists(props, pid)
                            THEN props[pid].owner_email ELSE None]]
  /\ ncalls' = ncalls + 1
  /\ UNCHANGED <<store, nextBid, nextNid, obs>>

BookFind(p) ==
  /\ Accepts(p)
  /\ nextBid + InFlightBooks <= MaxBookings
  /\ \E user \in Tenants, pid \in AllPropIds :
       w' = [w EXCEPT ![p] =
               IF PropExists(props, pid)
               THEN [Request("book", user, pid, 0, 0) EXCEPT
                       !.pc = "b_insert", !.owner = props[pid].owner_email]
               ELSE [Request("book", user, pid, 0, 0) EXCEPT
                       !.pc = "done", !.res = "PropertyNotFound"]]
  /\ ncalls' = ncalls + 1
  /\ UNCHANGED <<store, nextBid, nextNid, obs>>

BookInsert(p) ==
  /\ w[p].pc = "b_insert"
  /\ bookings' = Insert(bookings, nextBid, BookingDoc(w[p].pid, w[p].user))
  /\ nextBid' = nextBid + 1
  /\ w' = [w EXCEPT ![p].pc = "b_notif", ![p].bid = nextBid]
  /\ obs' = [obs EXCEPT ![p].wrote = TRUE, ![p].events = Append(@, "bookings")]
  /\ UNCHANGED <<props, notifications, nextNid, ncalls>>

BookNotify(p) ==
  /\ w[p].pc = "b_notif"
  /\ notifications' = Insert(notifications, nextNid, RequestNotif(w[p].owner, w[p].pid))
  /\ nextNid' = nextNid + 1
  /\ Goto(p, "b_mail")
  /\ obs' = [obs EXCEPT ![p].wrote = TRUE, ![p].nNotif = @ + 1,
                        ![p].events = Append(@, "notifications")]
  /\ UNCHANGED <<props, bookings, nextBid, ncalls>>

\* (variant: a failed send is tried a second time before the handler goes on)
MailRetrying(p, at, to) ==
  /\ w[p].pc = at
  /\ \E outcome \in MailOutcomes :
       /\ obs' = [obs EXCEPT
                    ![p].mails =
                      IF outcome = "failed"
                      THEN @ \o <<[to |-> to, outcome |-> outcome],
                                  [to |-> to, outcome |-> outcome]>>
                      ELSE Append(@, [to |-> to, outcome |-> outcome]),
                    ![p].events =
                      IF outcome = "failed" THEN @ \o <<"mail", "mail">>
                      ELSE Append(@, "mail")]
       /\ End(p, EmailStepResult(outcome))
  /\ UNCHANGED <<store, nextBid, nextNid, ncalls>>

\* the Messenger step of a handler: one send_email call, any transport outcome
Mail(p, at, to) ==
  /\ w[p].pc = at
  /\ \E outcome \in MailOutcomes :
       /\ obs' = [obs EXCEPT ![p].mails = Append(@, [to |-> to, outcome |-> outcome]),
                             ![p].events = Append(@, "mail")]
       /\ End(p, EmailStepResult(outcome))
  /\ UNCHANGED <<store, nextBid, nextNid, ncalls>>

BookMail(p) ==
  Mail(p, "b_mail", w[p].owner)

----------------------------------------------------------------------------
\* owner_approve_request

\* bookings_col.find_one({"_id": ObjectId(booking_id)}), shared with reject
FindBooking(p, op, next) ==
  /\ Accepts(p)
  /\ \E user \in Owners, bid \in KnownIds(nextBid, BookingIds) :
       /\ w' = [w EXCEPT ![p] =
                  IF BookingExists(bookings, bid)
                  THEN [Request(op, user, None, bid, 0) EXCEPT
                          !.pc = next,
                          !.booking = [id |-> bid,
                                       property_id |-> bookings[bid].property_id,
                                       tenant_email |-> bookings[bid].tenant_email]]
                  ELSE [Request(op, user, None, bid, 0) EXCEPT
                          !.pc = "done", !.res = "BookingNotFound"]]
       /\ obs' = [obs EXCEPT ![p].pend0 =
                    IF BookingExists(bookings, bid)
                    THEN PendingOf(bookings, bookings[bid].property_id)
                    ELSE {}]
  /\ ncalls' = ncalls + 1
  /\ UNCHANGED <<store, nextBid, nextNid>>

\* verify owner owns the property, shared with reject
Authorize(p, next) ==
  /\ IF OwnsProperty(props, w[p].booking.property_id, w[p].user)
     THEN Goto(p, next)
     ELSE End(p, "NotAuthorized")
  /\ UNCHANGED <<store, nextBid, nextNid, obs, ncalls>>

ApproveFind(p) ==
  FindBooking(p, "approve", "a_auth")

ApproveAuth(p) ==
  w[p].pc = "a_auth" /\ Authorize(p, "a_check")

ApproveCheck(p) ==
  /\ w[p].pc = "a_check"
  /\ IF ExistingApproved(bookings, w[p].booking.property_id)
     THEN End(p, "PropertyAlreadyBooked")
     ELSE Goto(p, "a_set")
  /\ UNCHANGED <<store, nextBid, nextNid, obs, ncalls>>

ApproveSet(p) ==
  /\ w[p].pc = "a_set"
  /\ bookings' = SetStatus(bookings, w[p].booking.id, "APPROVED")
  /\ Goto(p, "a_flag")
  /\ obs' = [obs EXCEPT ![p].wrote = @ \/ bookings' # bookings,
                        ![p].commitDom = DOMAIN bookings,
                        ![p].events = Append(@, "bookings")]
  /\ UNCHANGED <<props, notifications, nextBid, nextNid, ncalls>>

ApproveFlag(p) ==
  /\ w[p].pc = "a_flag"
  /\ props' = SetBookedFlag(props, w[p].booking.property_id, w[p].booking.tenant_email)
  /\ Goto(p, "a_many")
  /\ obs' = [obs EXCEPT ![p].wrote = @ \/ props' # props,
                        ![p].events = Append(@, "props")]
  /\ UNCHANGED <<bookings, notifications, nextBid, nextNid, ncalls>>

ApproveRejectOthers(p) ==
  /\ w[p].pc = "a_many"
  /\ bookings' = RejectAllPendingExcept(bookings, w[p].booking.property_id, w[p].booking.id)
  /\ Goto(p, "a_notif")
  /\ obs' = [obs EXCEPT ![p].wrote = @ \/ bookings' # bookings,
                        ![p].events = Append(@, "bookings")]
  /\ UNCHANGED <<props, notifications, nextBid, nextNid, ncalls>>

\* notifications_col.insert_one of approve / reject
Notify(p, at, kind, next) ==
  /\ w[p].pc = at
  /\ notifications' = Insert(notifications, nextNid, DecisionNotif(w[p].user, w[p].booking, kind))
  /\ nextNid' = nextNid + 1
  /\ Goto(p, next)
  /\ obs' = [obs EXCEPT ![p].wrote = TRUE, ![p].nNotif = @ + 1,
                        ![p].events = Append(@, "notifications")]
  /\ UNCHANGED <<props, bookings, nextBid, ncalls>>

ApproveNotify(p) ==
  Notify(p, "a_notif", "APPROVED", "a_mail")

ApproveMail(p) ==
  Mail(p, "a_mail", w[p].booking.tenant_email)

----------------------------------------------------------------------------
\* owner_reject_request

RejectFind(p) ==
  FindBooking(p, "reject", "r_auth")

RejectAuth(p) ==
  w[p].pc = "r_auth" /\ Authorize(p, "r_set")

RejectSet(p) ==
  /\ w[p].pc = "r_set"
  /\ bookings' = SetStatus(bookings, w[p].booking.id, "REJECTED")
  /\ Goto(p, "r_notif")
  /\ obs' = [obs EXCEPT ![p].wrote = @ \/ bookings' # bookings,
                        ![p].events = Append(@, "bookings")]
  /\ UNCHANGED <<props, notifications, nextBid, nextNid, ncalls>>

RejectNotify(p) ==
  Notify(p, "r_notif", "REJECTED", "r_mail")

RejectMail(p) ==
  Mail(p, "r_mail", w[p].booking.tenant_email)

----------------------------------------------------------------------------
\* owner_delete

DeleteProp(p) ==
  /\ Accepts(p)
  /\ \E user \in Owners, pid \in AllPropIds :
       /\ props' = DeleteOwnedProperty(props, pid, user)
       /\ w' = [w EXCEPT ![p] =
                  [Request("delete", user, pid, 0, 0) EXCEPT !.pc = "d_bookings"]]
  /\ obs' = [obs EXCEPT ![p].wrote = props' # props,
                        ![p].events = Append(@, "props")]
  /\ ncalls' = ncalls + 1
  /\ UNCHANGED <<bookings, notifications, nextBid, nextNid>>

DeleteBookings(p) ==
  /\ w[p].pc = "d_bookings"
  /\ bookings' = DeleteByProperty(bookings, w[p].pid)
  /\ Goto(p, "d_notifs")
  /\ obs' = [obs EXCEPT ![p].wrote = @ \/ bookings' # bookings,
                        ![p].events = Append(@, "bookings")]
  /\ UNCHANGED <<props, notifications, nextBid, nextNid, ncalls>>

DeleteNotifs(p) ==
  /\ w[p].pc = "d_notifs"
  /\ notifications' = DeleteByProperty(notifications, w[p].pid)
  /\ End(p, "Success")
  /\ obs' = [obs EXCEPT ![p].wrote = @ \/ notifications' # notifications,
                        ![p].events = Append(@, "notifications")]
  /\ UNCHANGED <<props, bookings, nextBid, nextNid, ncalls>>

----------------------------------------------------------------------------
\* mark_notification_read: any logged-in session, no recipient check

ReadMark(p) ==
  /\ Accepts(p)
  /\ \E user \in Users, nid \in KnownIds(nextNid, NotifIds) :
       /\ notifications' = MarkRead(notifications, nid)
       /\ w' = [w EXCEPT ![p] =
                  [Request("read", user, None, 0, nid) EXCEPT
                     !.pc = "done", !.res = "Success"]]
  /\ obs' = [obs EXCEPT ![p].wrote = notifications' # notifications,
                        ![p].events = Append(@, "notifications")]
  /\ ncalls' = ncalls + 1
  /\ UNCHANGED <<props, bookings, nextBid, nextNid>>

----------------------------------------------------------------------------
\* A pymongo write raises (connection lost, write error) and writes nothing.

\* writes with no try/except around them: the exception ends the request
UnguardedWrites ==
  {"b_insert", "b_notif", "a_set", "a_flag", "a_many", "a_notif",
   "r_set", "r_notif"}

\* the delete_many calls of owner_delete sit in one try/except: pass
GuardedWrites ==
  {"d_bookings", "d_notifs"}

StoreFails(p) ==
  /\ w[p].pc \in UnguardedWrites
  /\ End(p, "TransientStoreFailure")
  /\ UNCHANGED <<store, nextBid, nextNid, obs, ncalls>>

StoreFailsSwallowed(p) ==
  /\ w[p].pc \in GuardedWrites
  /\ End(p, "Success")
  /\ UNCHANGED <<store, nextBid, nextNid, obs, ncalls>>

\* the response is sent; the worker takes the next request with fresh locals
Return(p) ==
  /\ w[p].pc = "done"
  /\ w' = [w EXCEPT ![p] = IdleWorker]
  /\ obs' = [obs EXCEPT ![p] = NoObs]
  /\ UNCHANGED <<store, nextBid, nextNid, ncalls>>

----------------------------------------------------------------------------
Next ==
  \/ \E p \in Workers : BookFind(p)
  \/ \E p \in Workers : BookInsert(p)
  \/ \E p \in Workers : BookNotify(p)
  \/ \E p \in Workers : BookMail(p)
  \/ \E p \in Workers : ApproveFind(p)
  \/ \E p \in Workers : ApproveAuth(p)
  \/ \E p \in Workers : ApproveCheck(p)
  \/ \E p \in Workers : ApproveSet(p)
  \/ \E p \in Workers : ApproveFlag(p)
  \/ \E p \in Workers : ApproveRejectOthers(p)
  \/ \E p \in Workers : ApproveNotify(p)
  \/ \E p \in Workers : ApproveMail(p)
  \/ \E p \in Workers : RejectFind(p)
  \/ \E p \in Workers : RejectAuth(p)
  \/ \E p \in Workers : RejectSet(p)
  \/ \E p \in Workers : RejectNotify(p)
  \/ \E p \in Workers : RejectMail(p)
  \/ \E p \in Workers : DeleteProp(p)
  \/ \E p \in Workers : DeleteBookings(p)
  \/ \E p \in Workers : DeleteNotifs(p)
  \/ \E p \in Workers : ReadMark(p)
  \/ \E p \in Workers : StoreFails(p)
  \/ \E p \in Workers : StoreFailsSwallowed(p)
  \/ \E p \in Workers : Return(p)

Spec == Init /\ [][Next]_vars

TypeOK ==
  /\ DOMAIN props \subseteq PropIds
  /\ DOMAIN bookings \subseteq BookingIds
  /\ \A b \in DOMAIN bookings : bookings[b].status \in {"PENDING", "APPROVED", "REJECTED"}
  /\ nextBid \in 1..(MaxBookings + 1)
  /\ DOMAIN notifications \subseteq NotifIds
  /\ ncalls \in 0..MaxCalls

----------------------------------------------------------------------------
\* Vocabulary of the properties

ApprovedOf(bk, pid) ==
  {b \in DOMAIN bk : bk[b].property_id = pid /\ bk[b].status = "APPROVED"}

Terminal(st) ==
  st \in {"APPROVED", "REJECTED"}

\* worker p takes the step
Stepped(p) ==
  w'[p].pc # w[p].pc

\* worker p's handler returns in this step
Returns(p) ==
  w[p].pc # "done" /\ w'[p].pc = "done"

\* who registered the listing: the owner_email written by owner_add, which no
\* handler rewrites
ListedBy(pid) ==
  NewProps[pid].owner_email

\* p serves approve/reject for a session that does not own the booking's property
NonOwnerDecision(p) ==
  /\ w[p].op \in {"approve", "reject"}
  /\ w[p].booking.id # 0
  /\ ListedBy(w[p].booking.property_id) # w[p].user

NoSideEffects(p) ==
  /\ ~obs[p].wrote
  /\ obs[p].nNotif = 0
  /\ obs[p].mails = <<>>

----------------------------------------------------------------------------
\* C1 (exclusivity, I1): in every reachable state, also between the store
\* calls of overlapping requests, a property has at most one APPROVED booking.
\* The code checks for an approved booking and writes APPROVED in two separate
\* store calls, so two overlapping approvals both pass the check.
Exclusivity ==
  \A pid \in PropIds : Cardinality(ApprovedOf(bookings, pid)) <= 1

\* C2 (terminal monotonicity, I2): no step changes the status of a booking
\* that is APPROVED or REJECTED.  owner_reject_request writes REJECTED and
\* owner_approve_request writes APPROVED without looking at the status.
TerminalMonotonicity ==
  [][\A b \in DOMAIN bookings :
       (b \in DOMAIN bookings' /\ Terminal(bookings[b].status))
         => bookings'[b].status = bookings[b].status]_vars

\* C3 (auto-reject completeness): when an approval returns successfully,
\* every other booking of the property that was PENDING when the call began
\* is REJECTED, and the bookings of the property still PENDING were created
\* after the approval was written.
AutoRejectCompleteness ==
  [][\A p \in Workers :
       (Returns(p) /\ w'[p].op = "approve" /\ w'[p].res = "Success") =>
         /\ \A b \in obs'[p].pend0 \ {w'[p].booking.id} :
              b \in DOMAIN bookings' => bookings'[b].status = "REJECTED"
         /\ \A b \in PendingOf(bookings', w'[p].booking.property_id) :
              b \notin obs'[p].commitDom]_vars

\* C4 (authorization, I3): an approve or reject request of a session that
\* does not own the booking's property never gets past the ownership check:
\* it returns NotAuthorized and has written nothing, created no notification
\* and sent no mail.
Authorization ==
  \A p \in Workers :
    NonOwnerDecision(p) =>
      /\ w[p].pc \in {"a_auth", "r_auth", "done"}
      /\ w[p].pc = "done" => w[p].res = "NotAuthorized"
      /\ NoSideEffects(p)

AuthorizationWitness ==
  \E p \in Workers :
    /\ NonOwnerDecision(p)
    /\ w[p].pc = "done"
    /\ w[p].res = "NotAuthorized"
    /\ w[p].booking.id \in DOMAIN bookings
    /\ bookings[w[p].booking.id].status = "PENDING"

\* C5 (property already booked): when the approval's check finds another
\* APPROVED booking of the property, the call returns PropertyAlreadyBooked
\* in that step without touching the store, and a call that returned
\* PropertyAlreadyBooked has written nothing, created no notification and
\* sent no mail.
AlreadyBookedAborts ==
  [][\A p \in Workers :
       /\ ( /\ w[p].pc = "a_check"
            /\ Stepped(p)
            /\ ApprovedOf(bookings, w[p].booking.property_id) \ {w[p].booking.id} # {} )
          => ( /\ w'[p].pc = "done"
               /\ w'[p].res = "PropertyAlreadyBooked"
               /\ store' = store )
       /\ (w'[p].pc = "done" /\ w'[p].res = "PropertyAlreadyBooked")
          => NoSideEffects(p)']_vars

AlreadyBookedWitness ==
  \E p \in Workers :
    /\ w[p].pc = "done"
    /\ w[p].res = "PropertyAlreadyBooked"
    /\ w[p].booking.id \in DOMAIN bookings
    /\ bookings[w[p].booking.id].status = "PENDING"
    /\ \E b \in ApprovedOf(bookings, w[p].booking.property_id) :
         /\ b # w[p].booking.id
         /\ w[p].booking.property_id \in DOMAIN props
         /\ props[w[p].booking.property_id].booked
         /\ props[w[p].booking.property_id].booked_by = bookings[b].tenant_email

\* C6 (all-or-nothing): when an approve request has returned, normally or
\* on a failed store write, and its booking is APPROVED by it, then the
\* property's booked flag is set, no booking that was PENDING before the call
\* is still PENDING, and the approval notification exists.
AllOrNothing ==
  \A p \in Workers :
    ( /\ w[p].pc = "done"
      /\ w[p].op = "approve"
      /\ obs[p].wrote
      /\ w[p].booking.id \in DOMAIN bookings
      /\ bookings[w[p].booking.id].status = "APPROVED"
      /\ w[p].booking.property_id \in DOMAIN props )
    => /\ props[w[p].booking.property_id].booked
       /\ \A b \in obs[p].pend0 \ {w[p].booking.id} :
            b \in DOMAIN bookings => bookings[b].status # "PENDING"
       /\ obs[p].nNotif = 1

\* C7 (notification on transition): a book, approve or reject request that
\* returns Success has inserted exactly one notification; every notification
\* such a request inserts is one new document addressed to the counter-party,
\* the listing's owner for a booking request and the booking's tenant for a
\* decision, so an approval that auto-rejects other bookings notifies the
\* approved tenant only.
NotificationOnTransition ==
  [][\A p \in Workers :
       /\ ( /\ Returns(p)
            /\ w'[p].op \in {"book", "approve", "reject"}
            /\ w'[p].res = "Success" )
          => obs'[p].nNotif = 1
       /\ ( /\ Stepped(p)
            /\ w[p].op \in {"book", "approve", "reject"}
            /\ notifications' # notifications )
          => /\ nextNid \notin DOMAIN notifications
             /\ DOMAIN notifications' = DOMAIN notifications \cup {nextNid}
             /\ \A k \in DOMAIN notifications : notifications'[k] = notifications[k]
             /\ IF w[p].op = "book"
                THEN /\ notifications'[nextNid].owner_email = ListedBy(w[p].pid)
                     /\ notifications'[nextNid].tenant_email = None
                ELSE w[p].booking.id \in DOMAIN bookings =>
                       notifications'[nextNid].tenant_email
                         = bookings[w[p].booking.id].tenant_email]_vars

NotificationWitness ==
  \E p \in Workers :
    /\ w[p].pc = "done"
    /\ w[p].op = "approve"
    /\ w[p].res = "Success"
    /\ obs[p].nNotif = 1
    /\ \E b \in obs[p].pend0 \ {w[p].booking.id} :
         /\ b \in DOMAIN bookings
         /\ bookings[b].status = "REJECTED"
         /\ \A n \in DOMAIN notifications :
              notifications[n].tenant_email # bookings[b].tenant_email
    /\ \E n \in DOMAIN notifications :
         /\ notifications[n].booking_id = w[p].booking.id
         /\ notifications[n].kind = "APPROVED"
         /\ notifications[n].tenant_email = w[p].booking.tenant_email

\* C8 (delivery isolation): the step that calls Messenger leaves bookings,
\* property flags and notifications as they are and returns Success,
\* whatever the transport's outcome; the states after a delivered and after
\* a failed send differ in the delivery log only.
DeliveryIsolation ==
  [][\A p \in Workers :
       Len(obs'[p].mails) > Len(obs[p].mails) =>
         /\ store' = store
         /\ w' = [w EXCEPT ![p].pc = "done", ![p].res = "Success"]
         /\ obs'[p].nNotif = obs[p].nNotif
         /\ obs'[p].wrote = obs[p].wrote]_vars

DeliveryWitness ==
  \E p \in Workers :
    /\ w[p].pc = "done"
    /\ w[p].op = "approve"
    /\ w[p].res = "Success"
    /\ \E i \in DOMAIN obs[p].mails : obs[p].mails[i].outcome = "failed"
    /\ w[p].booking.id \in DOMAIN bookings
    /\ bookings[w[p].booking.id].status = "APPROVED"
    /\ \E n \in DOMAIN notifications : notifications[n].booking_id = w[p].booking.id

BookingsKeptWhilePropertyExists ==
  [][\A b \in DOMAIN bookings :
       bookings[b].property_id \in DOMAIN props' => b \in DOMAIN bookings']_vars

\* the identities a notification document names: the fields the list query
\* of notifications() matches on
NamedIn(n) ==
  {n.owner_email, n.tenant_email} \ {None}

\* C11 (read flag mutable by its recipient only): a mark-read request of a
\* session that the notification does not name leaves its read flag as it
\* was.  mark_notification_read updates by _id alone, for any logged-in
\* session.
ReadFlagRecipientOnly ==
  [][\A p \in Workers :
       ( /\ w[p].pc = "idle"
         /\ w'[p].op = "read"
         /\ w'[p].nid \in DOMAIN notifications
         /\ w'[p].user \notin NamedIn(notifications[w'[p].nid]) )
       => notifications'[w'[p].nid].read = notifications[w'[p].nid].read]_vars

\* the positions of the store / Messenger calls of kind k among the calls a
\* request made, in the order it made them
CallsOf(events, k) ==
  {i \in DOMAIN events : events[i] = k}

\* C12 (fan-out ordering): a book, approve or reject request that returns
\* Success made exactly one Messenger call, as its last call; exactly one
\* insert into notifications_col, right before it; and before that only
\* writes to bookings_col / props_col, the first of them to bookings_col.
FanOutOrdering ==
  [][\A p \in Workers :
       ( /\ Returns(p)
         /\ w'[p].op \in {"book", "approve", "reject"}
         /\ w'[p].res = "Success" )
       => /\ Len(obs'[p].events) >= 3
          /\ CallsOf(obs'[p].events, "mail") = {Len(obs'[p].events)}
          /\ CallsOf(obs'[p].events, "notifications") = {Len(obs'[p].events) - 1}
          /\ obs'[p].events[1] = "bookings"
          /\ Len(obs'[p].mails) = 1
          /\ obs'[p].nNotif = 1]_vars

FanOutWitness ==
  \E p \in Workers :
    /\ w[p].pc = "done"
    /\ w[p].op = "approve"
    /\ w[p].res = "Success"
    /\ obs[p].events = <<"bookings", "props", "bookings", "notifications", "mail">>
    /\ obs[p].mails = <<[to |-> w[p].booking.tenant_email, outcome |-> "failed"]>>
    /\ \E n \in DOMAIN notifications :
         /\ notifications[n].booking_id = w[p].booking.id
         /\ notifications[n].kind = "APPROVED"

\* the property a book / approve / reject request of worker p works on
PropertyOf(p) ==
  IF w[p].op = "book" THEN w[p].pid ELSE w[p].booking.property_id

\* C13 (cross-property independence): a step of a book, approve or reject
\* request on property P leaves every booking of every other property, and
\* every other property's document (booked flag, booked-by), exactly as it
\* was, and creates bookings for P only; requests on different properties
\* therefore never touch a common booking or property document.
CrossPropertyFrame ==
  [][\A p \in Workers :
       (Stepped(p) /\ w[p].op \in {"book", "approve", "reject"}) =>
         /\ \A b \in DOMAIN bookings :
              bookings[b].property_id # PropertyOf(p) =>
                b \in DOMAIN bookings' /\ bookings'[b] = bookings[b]
         /\ \A b \in DOMAIN bookings' \ DOMAIN bookings :
              bookings'[b].property_id = PropertyOf(p)
         /\ DOMAIN props' = DOMAIN props
         /\ \A q \in DOMAIN props :
              q # PropertyOf(p) => props'[q] = props[q]]_vars

CrossPropertyWitness ==
  \E p \in Workers :
    /\ w[p].pc = "done"
    /\ w[p].op = "approve"
    /\ w[p].res = "Success"
    /\ \E b \in obs[p].pend0 \ {w[p].booking.id} :
         b \in DOMAIN bookings /\ bookings[b].status = "REJECTED"
    /\ \E b \in obs[p].commitDom :
         /\ b \in DOMAIN bookings
         /\ bookings[b].property_id # w[p].booking.property_id
         /\ bookings[b].status = "PENDING"
    /\ \E q \in DOMAIN props :
         q # w[p].booking.property_id /\ ~props[q].booked

\* The booking lifecycle on its own: only book_property, owner_approve_request
\* and owner_reject_request requests arrive, and no store call fails.
LifecycleNext ==
  \/ \E p \in Workers : BookFind(p)
  \/ \E p \in Workers : BookInsert(p)
  \/ \E p \in Workers : BookNotify(p)
  \/ \E p \in Workers : BookMail(p)
  \/ \E p \in Workers : ApproveFind(p)
  \/ \E p \in Workers : ApproveAuth(p)
  \/ \E p \in Workers : ApproveCheck(p)
  \/ \E p \in Workers : ApproveSet(p)
  \/ \E p \in Workers : ApproveFlag(p)
  \/ \E p \in Workers : ApproveRejectOthers(p)
  \/ \E p \in Workers : ApproveNotify(p)
  \/ \E p \in Workers : ApproveMail(p)
  \/ \E p \in Workers : RejectFind(p)
  \/ \E p \in Workers : RejectAuth(p)
  \/ \E p \in Workers : RejectSet(p)
  \/ \E p \in Workers : RejectNotify(p)
  \/ \E p \in Workers : RejectMail(p)
  \/ \E p \in Workers : Return(p)

LifecycleSpec == Init /\ [][LifecycleNext]_vars

ApproveRunning ==
  \E p \in Workers : w[p].op = "approve" /\ w[p].pc # "done"

\* C14 (booked-flag consistency): whenever no approve request is running, a
\* property's booked flag is set with booked_by = T exactly if the property
\* has an APPROVED booking of tenant T.  The code sets the flag in
\* owner_approve_request and never clears it, while owner_reject_request
\* turns an APPROVED booking into REJECTED.
BookedFlagConsistency ==
  ~ApproveRunning =>
    \A q \in DOMAIN props, t \in Tenants :
      (props[q].booked /\ props[q].booked_by = t)
        <=> (\E b \in ApprovedOf(bookings, q) : bookings[b].tenant_email = t)

\* .sort("timestamp", -1): newest first; insert order is timestamp order
RECURSIVE NewestFirst(_)
NewestFirst(ids) ==
  IF ids = {} THEN <<>>
  ELSE LET m == CHOOSE x \in ids : \A y \in ids : y <= x
       IN  <<m>> \o NewestFirst(ids \ {m})

\* notifications(): find({"$or": [{"owner_email": u}, {"tenant_email": u}]})
\* sorted by timestamp descending, as the list of _ids shown to u
NotificationsFor(ns, user) ==
  NewestFirst({n \in DOMAIN ns :
                 ns[n].owner_email = user \/ ns[n].tenant_email = user})

Listed(ns, user, n) ==
  \E i \in DOMAIN NotificationsFor(ns, user) : NotificationsFor(ns, user)[i] = n

\* the one identity the notification of worker p's request is meant for
RecipientOf(p) ==
  IF w[p].op = "book" THEN ListedBy(w[p].pid) ELSE w[p].booking.tenant_email

\* C15 (single-recipient visibility): the notification a book, approve or
\* reject request inserts is listed for exactly one identity, its recipient:
\* the listing's owner for a booking request, the booking's tenant for a
\* decision, and then not for the acting owner.  The decision documents carry
\* the acting owner's email in owner_email as well, which the list query
\* matches.
SingleRecipientVisibility ==
  [][\A p \in Workers :
       ( /\ Stepped(p)
         /\ w[p].op \in {"book", "approve", "reject"}
         /\ nextNid' = nextNid + 1 )
       => \A u \in Users :
            Listed(notifications', u, nextNid) <=> u = RecipientOf(p)]_vars

====
